---- MODULE Spec2Model ----
(***************************************************************************)
(* Model of aws/config.go: the Config value object, the process-wide       *)
(* DefaultConfig, Config.Copy and Config.Merge.                            *)
(*                                                                         *)
(* Every Config field is a Go pointer (or interface) and is modelled as an *)
(* address into the heap `mem`; NIL is the nil pointer.  Config structs    *)
(* live in `cfgs`, indexed by their own address, so that aliasing between  *)
(* configs (shared boxes) and the identity of configs are both observable. *)
(***************************************************************************)
EXTENDS Integers, Sequences, FiniteSets, TLC

VARIABLES env,    \* the AWS_REGION environment variable
          mem,    \* heap of boxed values: mem[a] is the value stored at address a
          cfgs,   \* Config structs: cfgs[p] is the struct stored at address p
          hist,   \* hist[p]: the call that produced the struct at address p
          last,   \* the call or statement executed by the latest step
          caller, \* the calling code: its position and the structs it holds
          thr     \* concurrent callers of DefaultConfig.Merge, one entry each

vars == <<env, mem, cfgs, hist, last, caller, thr>>

NIL == 0

\* The fields of Config, in declaration order.
Fields ==
  <<"Credentials", "Endpoint", "Region", "DisableSSL", "HTTPClient",
    "LogHTTPBody", "LogLevel", "Logger", "MaxRetries",
    "DisableParamValidation", "DisableComputeChecksums", "S3ForcePathStyle">>

FieldSet == {Fields[i] : i \in DOMAIN Fields}

HandleFields == {"Credentials", "HTTPClient", "Logger"}
StringFields == {"Endpoint", "Region"}
BoolFields ==
  {"DisableSSL", "LogHTTPBody", "DisableParamValidation",
   "DisableComputeChecksums", "S3ForcePathStyle"}
IntFields == {"LogLevel", "MaxRetries"}
ScalarFields == StringFields \cup BoolFields \cup IntFields

DefaultRetries == -1

\* Bound on the number of Config structs the free-running caller allocates.
MaxConfigs == 3

\* Number of goroutines that merge onto DefaultConfig concurrently.
NumCallers == 2

\* States of AWS_REGION: unset, or set to a region name.
Envs == {[set |-> FALSE, val |-> ""], [set |-> TRUE, val |-> "us-west-2"]}

\* os.Getenv: the value of the variable, the empty string when it is unset.
Getenv(e) == IF e.set THEN e.val ELSE ""

----------------------------------------------------------------------------
(* Allocation of boxed values: String(v), Bool(v), Int(v) return a pointer *)
(* to a fresh box holding v.                                               *)

IndexOf == [f \in FieldSet |-> CHOOSE i \in DOMAIN Fields : Fields[i] = f]

\* Rank of field f among the fields of P, in declaration order.
Rank(f, P) == Cardinality({g \in P : IndexOf[g] <= IndexOf[f]})

\* Heap after boxing val[f] for each f in P, in declaration order.
Boxed(m, P, val) ==
  m \o [k \in 1..Cardinality(P) |-> val[CHOOSE f \in P : Rank(f, P) = k]]

\* The struct whose fields in P point at those fresh boxes; the rest are nil.
Literal(m, P) ==
  [f \in FieldSet |-> IF f \in P THEN Len(m) + Rank(f, P) ELSE NIL]

\* The values var DefaultConfig = &Config{...} is initialised with.
DefaultValues(e) ==
  [f \in FieldSet |->
     CASE f = "Credentials" -> "DefaultChainCredentials"
       [] f = "Endpoint" -> ""
       [] f = "Region" -> Getenv(e)
       [] f = "HTTPClient" -> "http.DefaultClient"
       [] f = "LogLevel" -> 0
       [] f = "Logger" -> "os.Stdout"
       [] f = "MaxRetries" -> DefaultRetries
       [] OTHER -> FALSE]

\* The address held by the package variable DefaultConfig.
DefaultConfig == 1

----------------------------------------------------------------------------
(* Values a caller puts into a Config literal or writes into a box.        *)

Flavors == {0, 1}

CallerValues ==
  [v \in Flavors |->
    [f \in FieldSet |->
       CASE f = "Credentials" -> IF v = 0 THEN "StaticCredentials" ELSE "EnvCredentials"
         [] f = "HTTPClient" -> IF v = 0 THEN "client0" ELSE "client1"
         [] f = "Logger" -> IF v = 0 THEN "os.Stderr" ELSE "logfile"
         [] f \in StringFields -> IF v = 0 THEN "" ELSE "us-east-1"
         [] f = "LogLevel" -> IF v = 0 THEN 0 ELSE 2
         [] f = "MaxRetries" -> IF v = 0 THEN 0 ELSE 3
         [] OTHER -> (v = 1)]]

\* Which fields a caller's literal sets: none, one, or all of them.
Shapes == {{}, FieldSet} \cup {{f} : f \in FieldSet}

----------------------------------------------------------------------------
(* Config.Copy and Config.Merge                                            *)

\* The zero value of the type a field points at.
ZeroValue(f) ==
  CASE f \in BoolFields -> FALSE
    [] f \in IntFields -> 0
    [] OTHER -> ""

\* A hand-written copy that forgets the Logger field.
CopyDropsLogger(c) ==
  [c EXCEPT !["Logger"] = NIL]

\* func (c Config) Copy() Config { dst := c; return dst }
Copy(c) ==
  LET dst == c IN dst

\* Copy returning its receiver instead of a struct of its own.
CopyAddrReceiver(store, c) == c

\* d := c.Copy(): the returned struct is stored in a variable of the caller.
CopyAddr(store, c) == Len(store) + 1

\* Merging on the value instead of on presence:
\* if newcfg.F != nil && *newcfg.F != zero { cfg.F = newcfg.F }
MergeFieldNonZero(cfg, newcfg, f) ==
  IF newcfg[f] # NIL /\ (f \in HandleFields \/ mem[newcfg[f]] # ZeroValue(f))
  THEN [cfg EXCEPT ![f] = newcfg[f]] ELSE cfg

\* Assigning without the nil test: cfg.F = newcfg.F
MergeFieldAlways(cfg, newcfg, f) ==
  [cfg EXCEPT ![f] = newcfg[f]]

\* Filling only the fields the base lacks:
\* if cfg.F == nil { cfg.F = newcfg.F }
MergeFieldKeepBase(cfg, newcfg, f) ==
  IF cfg[f] = NIL THEN [cfg EXCEPT ![f] = newcfg[f]] ELSE cfg

\* if newcfg.F != nil { cfg.F = newcfg.F }
MergeField(cfg, newcfg, f) ==
  IF newcfg[f] # NIL THEN [cfg EXCEPT ![f] = newcfg[f]] ELSE cfg

RECURSIVE MergeFrom(_, _, _)
MergeFrom(cfg, newcfg, i) ==
  IF i > Len(Fields) THEN cfg
  ELSE MergeFrom(MergeField(cfg, newcfg, Fields[i]), newcfg, i + 1)

\* A nil override answered with an empty Config rather than with the base.
MergeNilEmpty(store, c, newcfg) ==
  IF newcfg = NIL THEN [f \in FieldSet |-> NIL] ELSE MergeFrom(c, store[newcfg], 1)

\* func (c Config) Merge(newcfg *Config) *Config, on the struct store `store`;
\* c is the receiver (a copy of the struct), newcfg an address or nil.
Merge(store, c, newcfg) ==
  LET cfg == c IN
  IF newcfg = NIL THEN cfg ELSE MergeFrom(cfg, store[newcfg], 1)

\* Merge working on its receiver in place (cfg aliases *c).
CfgAddrInPlace(store, recv) == recv

\* cfg := c ... return &cfg: the local cfg is a freshly allocated struct.
CfgAddr(store, recv) == Len(store) + 1

\* The store with x placed at address p.
Put(store, p, x) ==
  [a \in 1..(IF p > Len(store) THEN p ELSE Len(store)) |->
     IF a = p THEN x ELSE store[a]]

----------------------------------------------------------------------------
NoCall == [op |-> "init", recv |-> NIL, arg |-> NIL]

Idle == [pc |-> "free", b |-> NIL, o1 |-> NIL, o2 |-> NIL]

\* Positions of a goroutine inside DefaultConfig.Merge(newcfg): before the
\* call, at the nil test of field Fields[i], at the return, returned.
AtCall == 0
AtReturn == Len(Fields) + 1
Returned == Len(Fields) + 2

\* Package initialisation.
InitPackage ==
  /\ env \in Envs
  /\ mem = Boxed(<<>>, FieldSet, DefaultValues(env))
  /\ cfgs = <<Literal(<<>>, FieldSet)>>
  /\ hist = <<NoCall>>
  /\ last = [op |-> "init", recv |-> NIL, arg |-> NIL, res |-> DefaultConfig, field |-> ""]

Init ==
  /\ InitPackage
  /\ caller = Idle
  /\ thr = <<>>

\* The effect of &Config{F: String(..), G: Bool(..), ...} on the stores.
DoLiteral(P, v) ==
  /\ mem' = Boxed(mem, P, CallerValues[v])
  /\ cfgs' = Append(cfgs, Literal(mem, P))
  /\ hist' = Append(hist, [op |-> "literal", recv |-> NIL, arg |-> NIL])
  /\ last' = [op |-> "literal", recv |-> NIL, arg |-> NIL,
              res |-> Len(cfgs) + 1, field |-> ""]
  /\ UNCHANGED <<env, thr>>

\* A caller writes a literal.
NewConfig(P, v) ==
  /\ caller.pc = "free"
  /\ Len(cfgs) < MaxConfigs
  /\ DoLiteral(P, v)
  /\ UNCHANGED caller

\* The effect of r := b.Merge(o) on the stores.
DoMerge(b, o) ==
  LET res == CfgAddr(cfgs, b) IN
    /\ cfgs' = Put(cfgs, res, Merge(cfgs, cfgs[b], o))
    /\ hist' = Put(hist, res, [op |-> "Merge", recv |-> b, arg |-> o])
    /\ last' = [op |-> "Merge", recv |-> b, arg |-> o, res |-> res, field |-> ""]
    /\ UNCHANGED <<env, mem, thr>>

\* The effect of d := c.Copy() on the stores.
DoCopy(c) ==
  LET d == CopyAddr(cfgs, c) IN
    /\ cfgs' = Put(cfgs, d, Copy(cfgs[c]))
    /\ hist' = Put(hist, d, [op |-> "Copy", recv |-> c, arg |-> NIL])
    /\ last' = [op |-> "Copy", recv |-> c, arg |-> NIL, res |-> d, field |-> ""]
    /\ UNCHANGED <<env, mem, thr>>

\* r := b.Merge(o)
MergeCall(b, o) ==
  /\ caller.pc = "free"
  /\ Len(cfgs) < MaxConfigs
  /\ DoMerge(b, o)
  /\ UNCHANGED caller

\* d := c.Copy()
CopyCall(c) ==
  /\ caller.pc = "free"
  /\ Len(cfgs) < MaxConfigs
  /\ DoCopy(c)
  /\ UNCHANGED caller

Next ==
  \/ \E P \in Shapes, v \in Flavors : NewConfig(P, v)
  \/ \E b \in DOMAIN cfgs, o \in {NIL} \cup DOMAIN cfgs : MergeCall(b, o)
  \/ \E c \in DOMAIN cfgs : CopyCall(c)

Spec == Init /\ [][Next]_vars

----------------------------------------------------------------------------
(* Layering: a caller that holds a base and two overrides and layers them  *)
(* both ways round.                                                        *)
(*     m1 := b.Merge(o1);  l := m1.Merge(o2)                               *)
(*     m2 := o1.Merge(o2); r := b.Merge(m2)                                *)
(*     i := l.Merge(o2)                                                    *)
(* The base is DefaultConfig or a literal; o1 is a literal; o2 is a        *)
(* literal or nil.                                                         *)

InitLayer ==
  /\ InitPackage
  /\ caller = [Idle EXCEPT !.pc = "base"]
  /\ thr = <<>>

\* b := DefaultConfig
LayerBaseDefault ==
  /\ caller.pc = "base"
  /\ caller' = [caller EXCEPT !.pc = "o1", !.b = DefaultConfig]
  /\ UNCHANGED <<env, mem, cfgs, hist, last, thr>>

\* b := &Config{...}
LayerBaseLiteral(P, v) ==
  /\ caller.pc = "base"
  /\ DoLiteral(P, v)
  /\ caller' = [caller EXCEPT !.pc = "o1", !.b = Len(cfgs) + 1]

\* o1 := &Config{...}
LayerO1(P, v) ==
  /\ caller.pc = "o1"
  /\ DoLiteral(P, v)
  /\ caller' = [caller EXCEPT !.pc = "o2", !.o1 = Len(cfgs) + 1]

\* o2 := nil
LayerO2Nil ==
  /\ caller.pc = "o2"
  /\ caller' = [caller EXCEPT !.pc = "m1", !.o2 = NIL]
  /\ UNCHANGED <<env, mem, cfgs, hist, last, thr>>

\* o2 := &Config{...}, holding other values than o1
LayerO2(P) ==
  /\ caller.pc = "o2"
  /\ \E v \in Flavors :
       /\ \A f \in FieldSet : cfgs[caller.o1][f] # NIL =>
                                mem[cfgs[caller.o1][f]] # CallerValues[v][f]
       /\ DoLiteral(P, v)
  /\ caller' = [caller EXCEPT !.pc = "m1", !.o2 = Len(cfgs) + 1]

\* m1 := b.Merge(o1)
LayerM1 ==
  /\ caller.pc = "m1"
  /\ DoMerge(caller.b, caller.o1)
  /\ caller' = [caller EXCEPT !.pc = "l"]

\* l := m1.Merge(o2)
LayerL ==
  /\ caller.pc = "l"
  /\ DoMerge(last.res, caller.o2)
  /\ caller' = [caller EXCEPT !.pc = "m2"]

\* m2 := o1.Merge(o2)
LayerM2 ==
  /\ caller.pc = "m2"
  /\ DoMerge(caller.o1, caller.o2)
  /\ caller' = [caller EXCEPT !.pc = "r"]

\* r := b.Merge(m2)
LayerR ==
  /\ caller.pc = "r"
  /\ DoMerge(caller.b, last.res)
  /\ caller' = [caller EXCEPT !.pc = "i"]

\* i := l.Merge(o2)
LayerI ==
  /\ caller.pc = "i"
  /\ \E l \in DOMAIN cfgs :
       /\ hist[l] = [op |-> "Merge", recv |-> l - 1, arg |-> caller.o2]
       /\ hist[l - 1] = [op |-> "Merge", recv |-> caller.b, arg |-> caller.o1]
       /\ DoMerge(l, caller.o2)
  /\ caller' = [caller EXCEPT !.pc = "done"]

NextLayer ==
  \/ LayerBaseDefault
  \/ \E P \in Shapes, v \in Flavors : LayerBaseLiteral(P, v)
  \/ \E P \in Shapes, v \in Flavors : LayerO1(P, v)
  \/ LayerO2Nil
  \/ \E P \in Shapes : LayerO2(P)
  \/ LayerM1 \/ LayerL \/ LayerM2 \/ LayerR \/ LayerI

SpecLayer == InitLayer /\ [][NextLayer]_vars

----------------------------------------------------------------------------
(* Modification after construction: a caller builds the configuration of a *)
(* client, r := DefaultConfig.Merge(o), duplicates some config,            *)
(* d := c.Copy(), and then modifies one field of one of the structs it     *)
(* holds, either by assigning the field or by writing through it.          *)

InitMut ==
  /\ InitPackage
  /\ caller = [Idle EXCEPT !.pc = "override", !.b = DefaultConfig]
  /\ thr = <<>>

\* o := nil
MutOverrideNil ==
  /\ caller.pc = "override"
  /\ caller' = [caller EXCEPT !.pc = "merge", !.o1 = NIL]
  /\ UNCHANGED <<env, mem, cfgs, hist, last, thr>>

\* o := &Config{...}
MutOverride(P, v) ==
  /\ caller.pc = "override"
  /\ DoLiteral(P, v)
  /\ caller' = [caller EXCEPT !.pc = "merge", !.o1 = Len(cfgs) + 1]

\* r := DefaultConfig.Merge(o)
MutMerge ==
  /\ caller.pc = "merge"
  /\ DoMerge(caller.b, caller.o1)
  /\ caller' = [caller EXCEPT !.pc = "copy"]

\* d := c.Copy()
MutCopy(c) ==
  /\ caller.pc = "copy"
  /\ DoCopy(c)
  /\ caller' = [caller EXCEPT !.pc = "modify"]

\* t.F = String(v) (or Bool(v), Int(v), or another handle): the field is
\* replaced by a pointer to a fresh box.
Replace(t, f, v) ==
  /\ caller.pc = "modify"
  /\ mem' = Append(mem, CallerValues[v][f])
  /\ cfgs' = [cfgs EXCEPT ![t][f] = Len(mem) + 1]
  /\ last' = [op |-> "Replace", recv |-> t, arg |-> NIL, res |-> t, field |-> f]
  /\ caller' = [caller EXCEPT !.pc = "done"]
  /\ UNCHANGED <<env, hist, thr>>

\* t.F = nil
ReplaceNil(t, f) ==
  /\ caller.pc = "modify"
  /\ cfgs' = [cfgs EXCEPT ![t][f] = NIL]
  /\ last' = [op |-> "Replace", recv |-> t, arg |-> NIL, res |-> t, field |-> f]
  /\ caller' = [caller EXCEPT !.pc = "done"]
  /\ UNCHANGED <<env, mem, hist, thr>>

\* *t.F = v: a write to the box the field points at.
Write(t, f, v) ==
  /\ caller.pc = "modify"
  /\ cfgs[t][f] # NIL
  /\ mem[cfgs[t][f]] # CallerValues[v][f]
  /\ mem' = [mem EXCEPT ![cfgs[t][f]] = CallerValues[v][f]]
  /\ last' = [op |-> "Write", recv |-> t, arg |-> NIL, res |-> t, field |-> f]
  /\ caller' = [caller EXCEPT !.pc = "done"]
  /\ UNCHANGED <<env, cfgs, hist, thr>>

NextMut ==
  \/ MutOverrideNil
  \/ \E P \in Shapes, v \in Flavors : MutOverride(P, v)
  \/ MutMerge
  \/ \E c \in DOMAIN cfgs : MutCopy(c)
  \/ \E t \in DOMAIN cfgs, f \in FieldSet, v \in Flavors : Replace(t, f, v)
  \/ \E t \in DOMAIN cfgs, f \in FieldSet : ReplaceNil(t, f)
  \/ \E t \in DOMAIN cfgs, f \in FieldSet, v \in Flavors : Write(t, f, v)

SpecMut == InitMut /\ [][NextMut]_vars

----------------------------------------------------------------------------
(* Concurrent client construction: NumCallers goroutines each run          *)
(* DefaultConfig.Merge(newcfg) with an override of their own.  Nothing is  *)
(* locked, so the statements of the calls interleave freely.               *)

\* The overrides the goroutines are started with.
ConcShapes == {FieldSet, {"Region", "DisableSSL", "MaxRetries"}}

InitConc ==
  /\ InitPackage
  /\ caller = [Idle EXCEPT !.pc = "spawn", !.b = DefaultConfig]
  /\ thr = <<>>

\* go func() { DefaultConfig.Merge(nil) }()
SpawnNil ==
  /\ caller.pc = "spawn"
  /\ Len(thr) < NumCallers
  /\ thr' = Append(thr, [pc |-> AtCall, newcfg |-> NIL, cfg |-> NIL])
  /\ UNCHANGED <<env, mem, cfgs, hist, last, caller>>

\* go func() { DefaultConfig.Merge(&Config{...}) }()
Spawn(P) ==
  /\ caller.pc = "spawn"
  /\ Len(thr) < NumCallers
  /\ mem' = Boxed(mem, P, CallerValues[Len(thr) % 2])
  /\ cfgs' = Append(cfgs, Literal(mem, P))
  /\ hist' = Append(hist, [op |-> "literal", recv |-> NIL, arg |-> NIL])
  /\ thr' = Append(thr, [pc |-> AtCall, newcfg |-> Len(cfgs) + 1, cfg |-> NIL])
  /\ UNCHANGED <<env, last, caller>>

\* func (c Config) Merge(newcfg *Config): the receiver is copied;
\* cfg := c; if newcfg == nil { return &cfg }
Call(i) ==
  /\ thr[i].pc = AtCall
  /\ LET cfg == CfgAddr(cfgs, caller.b) IN
       /\ cfgs' = Put(cfgs, cfg, cfgs[caller.b])
       /\ hist' = Put(hist, cfg, [op |-> "Merge", recv |-> caller.b,
                                  arg |-> thr[i].newcfg])
       /\ thr' = [thr EXCEPT ![i].cfg = cfg,
                             ![i].pc = IF thr[i].newcfg = NIL THEN AtReturn ELSE 1]
  /\ UNCHANGED <<env, mem, last, caller>>

\* if newcfg.F != nil { cfg.F = newcfg.F }, for the next field F
FieldStep(i) ==
  /\ thr[i].pc \in DOMAIN Fields
  /\ cfgs' = [cfgs EXCEPT ![thr[i].cfg] =
                MergeField(@, cfgs[thr[i].newcfg], Fields[thr[i].pc])]
  /\ thr' = [thr EXCEPT ![i].pc = @ + 1]
  /\ UNCHANGED <<env, mem, hist, last, caller>>

\* return &cfg
Return(i) ==
  /\ thr[i].pc = AtReturn
  /\ thr' = [thr EXCEPT ![i].pc = Returned]
  /\ last' = [op |-> "Merge", recv |-> caller.b, arg |-> thr[i].newcfg,
              res |-> thr[i].cfg, field |-> ""]
  /\ UNCHANGED <<env, mem, cfgs, hist, caller>>

NextConc ==
  \/ SpawnNil
  \/ \E P \in ConcShapes : Spawn(P)
  \/ \E i \in DOMAIN thr : Call(i)
  \/ \E i \in DOMAIN thr : FieldStep(i)
  \/ \E i \in DOMAIN thr : Return(i)

SpecConc == InitConc /\ [][NextConc]_vars

----------------------------------------------------------------------------
(* Properties                                                              *)

\* Field f has the same presence and, when present, the same value in the
\* structs x and y; a handle field also refers to the same resource.
SameField(x, y, f) ==
  /\ (x[f] = NIL) <=> (y[f] = NIL)
  /\ x[f] # NIL => mem[x[f]] = mem[y[f]]
  /\ f \in HandleFields => x[f] = y[f]

FieldwiseEqual(x, y) == \A f \in FieldSet : SameField(x, y, f)

\* Field f of the struct at address p is observed the same before and after
\* the step.
ObservedSame(p, f) ==
  /\ (cfgs'[p][f] = NIL) <=> (cfgs[p][f] = NIL)
  /\ cfgs[p][f] # NIL => mem'[cfgs'[p][f]] = mem[cfgs[p][f]]

\* The step is the caller's modification of a field of the struct at t.
Modifies(t) ==
  /\ caller.pc = "modify"
  /\ caller'.pc = "done"
  /\ last'.recv = t

\* The struct at address p was obtained from DefaultConfig by Merge and Copy
\* calls only.
RECURSIVE Derived(_)
Derived(p) ==
  \/ p = DefaultConfig /\ hist[p].op = "init"
  \/ /\ hist[p].op \in {"Merge", "Copy"}
     /\ hist[p].recv # p
     /\ Derived(hist[p].recv)

C2_MergeLeavesArguments ==
  [][last'.op = "Merge" =>
       /\ \A p \in DOMAIN cfgs : p \in DOMAIN cfgs' /\ cfgs'[p] = cfgs[p]
       /\ \A a \in DOMAIN mem : a \in DOMAIN mem' /\ mem'[a] = mem[a]
       /\ last'.res \notin DOMAIN cfgs
       /\ last'.res \notin {last'.recv, last'.arg}]_vars

\* A Merge with a non-nil override whose result differs from its base.
C2_Witness ==
  /\ last.op = "Merge" /\ last.arg # NIL
  /\ last.res \notin {last.recv, last.arg}
  /\ cfgs[last.res] # cfgs[last.recv]
  /\ cfgs[last.res] # cfgs[last.arg]

\* C6: b.Merge(nil) is field-wise equal to b.Copy().
C6_MergeNilIsCopy ==
  (last.op = "Merge" /\ last.arg = NIL) =>
    FieldwiseEqual(cfgs[last.res], Copy(cfgs[last.recv]))

\* A Merge(nil) on a base that has one field and lacks the others.
C6_Witness ==
  /\ last.op = "Merge" /\ last.arg = NIL
  /\ \E f \in FieldSet : cfgs[last.res][f] # NIL
  /\ \E f \in FieldSet : cfgs[last.recv][f] = NIL

\* C7: c.Copy() is field-wise equal to c, and its handle fields refer to the
\* resources c's refer to.
C7_CopyFieldwise ==
  last.op = "Copy" =>
    /\ FieldwiseEqual(cfgs[last.res], cfgs[last.recv])
    /\ \A f \in HandleFields : cfgs[last.res][f] = cfgs[last.recv][f]

\* A Copy of a config whose handle fields are set.
C7_Witness ==
  /\ last.op = "Copy"
  /\ last.res # last.recv
  /\ \A f \in HandleFields : cfgs[last.recv][f] # NIL
  /\ \A f \in HandleFields : cfgs[last.res][f] = cfgs[last.recv][f]

\* C9: DefaultConfig has every field present, its Region being "" when
\* AWS_REGION is unset; Merge keeps every field its base has; so every config
\* obtained from DefaultConfig by Merge and Copy calls has every field.
C9_PresenceKept ==
  /\ ~env.set => /\ cfgs[DefaultConfig]["Region"] # NIL
                 /\ mem[cfgs[DefaultConfig]["Region"]] = ""
  /\ last.op = "Merge" =>
       \A f \in FieldSet : cfgs[last.recv][f] # NIL => cfgs[last.res][f] # NIL
  /\ \A p \in DOMAIN cfgs : Derived(p) => \A f \in FieldSet : cfgs[p][f] # NIL

\* With AWS_REGION unset, a config derived from DefaultConfig by a Merge with
\* an override that lacks fields.
C9_Witness ==
  /\ ~env.set
  /\ last.op = "Merge" /\ last.arg # NIL
  /\ last.res # DefaultConfig /\ Derived(last.res)
  /\ \E f \in FieldSet : cfgs[last.arg][f] = NIL
  /\ \A f \in FieldSet : cfgs[last.res][f] # NIL

\* C3, as stated: after d := c.Copy(), neither assigning a scalar field of d
\* nor writing to the box that field of d points at changes the field as
\* observed through c.
C3_CopyScalarsIndependent ==
  [][\A d \in DOMAIN cfgs :
       (/\ hist[d].op = "Copy"
        /\ Modifies(d)
        /\ last'.op \in {"Replace", "Write"}
        /\ last'.field \in ScalarFields)
       => ObservedSame(hist[d].recv, last'.field)]_vars

\* C3, amended: after d := c.Copy(), assigning a scalar field of d does not
\* change the field as observed through c; the copy is shallow for the scalar
\* fields too, so d's field points at the box c's field points at until it
\* is assigned, and a write to that box is observed through c.
C3_CopyAssignIndependent ==
  [][\A d \in DOMAIN cfgs :
       (/\ hist[d].op = "Copy"
        /\ Modifies(d)
        /\ last'.field \in ScalarFields)
       => LET c == hist[d].recv
              f == last'.field
          IN /\ cfgs[d][f] = cfgs[c][f]
             /\ last'.op = "Replace" => ObservedSame(c, f)
             /\ last'.op = "Write" =>
                  /\ cfgs'[c][f] = cfgs[c][f]
                  /\ mem'[cfgs[c][f]] = mem'[cfgs'[d][f]]
                  /\ mem'[cfgs[c][f]] # mem[cfgs[c][f]]]_vars

\* A scalar field of a copy was assigned and now differs from the source's,
\* which is still present.
C3_Witness ==
  /\ last.op = "Replace"
  /\ last.field \in ScalarFields
  /\ hist[last.recv].op = "Copy"
  /\ hist[last.recv].recv # last.recv
  /\ cfgs[hist[last.recv].recv][last.field] # NIL
  /\ cfgs[last.recv][last.field] # cfgs[hist[last.recv].recv][last.field]

\* C4: whatever the interleaving, DefaultConfig and its boxes stay as package
\* initialisation left them, and every caller that has returned holds what
\* its Merge gives when run alone.
C4_ConcurrentMerge ==
  /\ cfgs[DefaultConfig] = Literal(<<>>, FieldSet)
  /\ \A f \in FieldSet : mem[cfgs[DefaultConfig][f]] = DefaultValues(env)[f]
  /\ \A i \in DOMAIN thr :
       thr[i].pc = Returned =>
         /\ thr[i].cfg # DefaultConfig
         /\ cfgs[thr[i].cfg] =
              Merge(cfgs, Literal(<<>>, FieldSet), thr[i].newcfg)

\* One caller has returned a merged config while another, with an override
\* of its own, entered Merge before it and is still in the middle of its
\* field tests.
C4_Witness ==
  \E i, j \in DOMAIN thr :
    /\ i # j
    /\ thr[i].pc = Returned /\ thr[i].newcfg # NIL
    /\ thr[j].pc \in DOMAIN Fields /\ thr[j].pc > 1 /\ thr[j].newcfg # NIL
    /\ thr[j].cfg < thr[i].cfg
    /\ cfgs[thr[i].cfg] # cfgs[DefaultConfig]

\* C5, as stated: once r := DefaultConfig.Merge(o) has returned, no
\* modification of DefaultConfig or of o, by assigning a field or by writing
\* to the box it points at, changes a scalar field of r.
C5_CopiedByValue ==
  [][\A r \in DOMAIN cfgs :
       (/\ hist[r].op = "Merge"
        /\ hist[r].recv = DefaultConfig
        /\ r \notin {DefaultConfig, hist[r].arg}
        /\ \/ Modifies(DefaultConfig)
           \/ hist[r].arg # NIL /\ Modifies(hist[r].arg))
       => \A f \in ScalarFields : ObservedSame(r, f)]_vars

\* C8, as stated: no Merge turns a true bool field of its base into false,
\* and a field of the override that holds a zero value is not merged in.
C8_BoolNeverCleared ==
  last.op = "Merge" =>
    /\ \A f \in BoolFields :
         (cfgs[last.recv][f] # NIL /\ mem[cfgs[last.recv][f]] = TRUE)
         => ~(cfgs[last.res][f] # NIL /\ mem[cfgs[last.res][f]] = FALSE)
    /\ last.arg # NIL =>
         \A f \in ScalarFields :
           (cfgs[last.arg][f] # NIL /\ mem[cfgs[last.arg][f]] = ZeroValue(f))
           => cfgs[last.res][f] = cfgs[last.recv][f]

\* The value layering gives field f over base b and overrides o1, then o2
\* (o2 possibly nil).
Layered(b, o1, o2, f) ==
  IF o2 # NIL /\ cfgs[o2][f] # NIL THEN cfgs[o2][f]
  ELSE IF cfgs[o1][f] # NIL THEN cfgs[o1][f]
  ELSE cfgs[b][f]

====
